---- MODULE Spec2Model ----
(***************************************************************************)
(* Model of rust-hole-core's DNS request handler (dns/server.rs):          *)
(* DnsBlocker::handle_request run by concurrent tasks over the shared      *)
(* answer cache and pending-query map, each guarded by a tokio Mutex.      *)
(* One action per stretch of handle_request between two suspension points. *)
(***************************************************************************)
EXTENDS Integers, Sequences, FiniteSets, TLC

\* ---------------------------------------------------------------- bounds
\* Number of datagrams the listener dispatches (one handle_request task each).
MaxTasks == 2
\* Number of clock advances in a run.
MaxTicks == 1
\* Seconds the clock advances by in one step.
TickSecs == 60

\* ------------------------------------------------------------- constants
\* Duration::from_secs(60) of a blocked entry.
BlockTtl == 60
\* unwrap_or(60) when the record set has no TTL to take the minimum of.
DefaultTtl == 60

Tasks == 1..MaxTasks
NoTask == 0
MaxNow == MaxTicks * TickSecs

\* ------------------------------------------------------------ names, types
\* Domain names are sequences of characters, as query.name().to_string()
\* prints them: fully qualified, with the trailing dot.
NameBad == <<"b", "a", "d", ".", "x", ".">>
NameOk == <<"o", "k", ".">>
QNames == {NameBad, NameOk}
QTypes == {"A", "AAAA", "HTTPS"}

Query(id, name, qtype) == [id |-> id, name |-> name, qtype |-> qtype]

\* The datagrams clients send: a name that ends with a blocked suffix, and an
\* allowed name asked under two transaction IDs and three record types (A and
\* HTTPS share a cache key).
Requests ==
    { Query(11, NameBad, "A"),
      Query(11, NameOk, "A"),
      Query(22, NameOk, "HTTPS"),
      Query(11, NameOk, "AAAA") }

\* The snapshot of blocked suffixes handed to DnsBlocker::new.
Blocklist == << <<"z">>, <<"a", "d", ".", "x">> >>

\* str::trim_end_matches('.')
RECURSIVE TrimEndDots(_)
TrimEndDots(s) ==
    IF Len(s) > 0 /\ s[Len(s)] = "."
    THEN TrimEndDots(SubSeq(s, 1, Len(s) - 1))
    ELSE s

\* str::ends_with
EndsWith(s, suffix) ==
    /\ Len(suffix) <= Len(s)
    /\ SubSeq(s, Len(s) - Len(suffix) + 1, Len(s)) = suffix

\* A match of whole names only.
is_blockedMut(domain) ==
    \E i \in 1..Len(Blocklist) : domain = Blocklist[i]

is_blocked(domain) ==
    \E i \in 1..Len(Blocklist) : EndsWith(domain, Blocklist[i])

\* RecordType::HTTPS => RecordType::A, other => other
KeyType(qtype) == IF qtype = "HTTPS" THEN "A" ELSE qtype

CacheKey(q) == [domain |-> TrimEndDots(q.name), record_type |-> KeyType(q.qtype)]

Keys == {CacheKey([name |-> n, qtype |-> ty]) : n \in QNames, ty \in QTypes}

NoReq == [id |-> 0, name |-> <<>>, qtype |-> "none"]

\* ------------------------------------------------------ upstream resolver
Rec(name, rtype, ttl, data) == [name |-> name, rtype |-> rtype, ttl |-> ttl, data |-> data]

\* The record sets the upstream server may answer a lookup of (name, qtype) with.
Answers(name, qtype) ==
    { << Rec(name, qtype, 90, 1), Rec(name, qtype, 30, 2) >>,
      << Rec(name, qtype, 0, 3) >>,
      << >> }

RECURSIVE MinTtlFrom(_, _, _)
MinTtlFrom(records, i, acc) ==
    IF i > Len(records) THEN acc
    ELSE MinTtlFrom(records, i + 1,
                    IF records[i].ttl < acc THEN records[i].ttl ELSE acc)

\* The TTL of the first record taken for the minimum.
MinTtlMut(records) ==
    IF Len(records) = 0 THEN DefaultTtl ELSE records[1].ttl

\* records.iter().map(|r| r.ttl()).min().unwrap_or(60)
MinTtl(records) ==
    IF Len(records) = 0 THEN DefaultTtl
    ELSE MinTtlFrom(records, 2, records[1].ttl)

\* ---------------------------------------------------------------- state
VARIABLES
    pc,           \* task -> position in handle_request
    req,          \* task -> the request it was dispatched with
    key,          \* task -> local `cache_key`
    cache,        \* CacheKey -> CacheEntry, the keys present only
    pending,      \* CacheKey -> PendingQuery (its waiters), the keys present only
    cacheLock,    \* task holding the cache mutex, or NoTask
    pendingLock,  \* task holding the pending mutex, or NoTask
    chan,         \* task -> state of the oneshot channel it waits on
    recs,         \* leader -> local `records` of the lookup, until it returns
    exp,          \* task -> local `expires_at` it computed, until it returns
    resp,         \* task -> the response it sent, or NoResp
    now,          \* Instant::now(), in seconds
    role,         \* task -> path taken through handle_request
    ldr,          \* follower -> the leader whose entry it registered on
    cohort,       \* task -> the same-key tasks it raced with on an empty cache
    phase,        \* position of run_dns, "exited" once main has returned
    loaded,       \* the blocklist snapshot was read from the database
    registered,   \* the handler's socket was registered with the server
    dnsResult,    \* what run_dns returned, "none" while it runs
    mainResult    \* what main returned, "running" while it runs

\* The state of the process around the handler: main and run_dns.
startup == <<phase, loaded, registered, dnsResult, mainResult>>

vars == <<pc, req, key, cache, pending, cacheLock, pendingLock, chan, recs, exp,
          resp, now, role, ldr, cohort, phase, loaded, registered, dnsResult,
          mainResult>>

NoResp == [id |-> 0, rcode |-> "none", answers |-> <<>>]
ChanEmpty == [state |-> "empty", records |-> <<>>]
ChanClosed == [state |-> "closed", records |-> <<>>]
ChanOk(records) == [state |-> "sent", records |-> records]

NoKey == [domain |-> << >>, record_type |-> "none"]

Key(t) == key[t]

\* A response built on a fresh header instead of the request's.
BuildResponseMut(request, code, records) ==
    [id |-> 0, rcode |-> code, answers |-> records]

\* header = request.header().clone(); header.set_response_code(code);
\* MessageResponseBuilder::from_message_request(request).build(header, records, ..)
BuildResponse(request, code, records) ==
    [id |-> request.id, rcode |-> code, answers |-> records]

InFlight(t) == pc[t] \notin {"idle", "done"}

\* A task is leader from its claim of the key to its removal of the entry.
LeaderStates == {"forward", "cache_insert", "wake", "fail_remove"}
IsLeader(t) == pc[t] \in LeaderStates

\* Number of resolver.lookup invocations made for a key so far: one per task
\* that took the do_forward branch.
UpstreamCalls(k) == Cardinality({t \in Tasks : role[t] = "leader" /\ Key(t) = k})

\* DnsBlocker::new: empty cache and pending map, no request dispatched yet.
NoTraffic ==
    /\ pc = [t \in Tasks |-> "idle"]
    /\ req = [t \in Tasks |-> NoReq]
    /\ key = [t \in Tasks |-> NoKey]
    /\ cache = << >>
    /\ pending = << >>
    /\ cacheLock = NoTask
    /\ pendingLock = NoTask
    /\ chan = [t \in Tasks |-> ChanEmpty]
    /\ recs = [t \in Tasks |-> << >>]
    /\ exp = [t \in Tasks |-> 0]
    /\ resp = [t \in Tasks |-> NoResp]
    /\ now = 0
    /\ role = [t \in Tasks |-> "none"]
    /\ ldr = [t \in Tasks |-> NoTask]
    /\ cohort = [t \in Tasks |-> {}]

\* The handler is constructed and its socket registered: the server serves.
Init ==
    /\ NoTraffic
    /\ phase = "serving"
    /\ loaded = TRUE
    /\ registered = TRUE
    /\ dnsResult = "none"
    /\ mainResult = "running"

\* A removal that leaves the map as it was.
RemoveMut(m, k) == m

\* HashMap::insert and HashMap::remove, over the keys present.
Put(m, k, v) == [x \in (DOMAIN m) \cup {k} |-> IF x = k THEN v ELSE m[x]]
Remove(m, k) == [x \in (DOMAIN m) \ {k} |-> m[x]]

\* ------------------------------------------------------------- the clock
Tick ==
    /\ now + TickSecs <= MaxNow
    /\ now' = now + TickSecs
    /\ UNCHANGED <<startup, pc, req, key, cache, pending, cacheLock, pendingLock, chan, recs,
                   exp, resp, role, ldr, cohort>>

\* ------------------------------------------------------------ the listener
\* The server decodes a datagram and spawns handle_request for it.  A task
\* dispatched while the cache holds no entry for its key joins the cohort of
\* the same-key tasks in flight that were dispatched on an empty cache too.
Receive(t, q) ==
    /\ phase = "serving"
    /\ pc[t] = "idle"
    /\ \A u \in Tasks : u < t => pc[u] # "idle"
    /\ pc' = [pc EXCEPT ![t] = "cache_read"]
    /\ req' = [req EXCEPT ![t] = q]
    /\ key' = [key EXCEPT ![t] = CacheKey(q)]
    /\ cohort' = [cohort EXCEPT ![t] =
                    IF CacheKey(q) \in DOMAIN cache THEN {}
                    ELSE {t} \cup {u \in Tasks : /\ InFlight(u)
                                                 /\ Key(u) = CacheKey(q)
                                                 /\ cohort[u] # {}}]
    /\ UNCHANGED <<startup, cache, pending, cacheLock, pendingLock, chan, recs, exp, resp,
                   now, role, ldr>>

\* The freshness test with the expiry instant itself counted as fresh.
FreshMut(entry, instant) == instant <= entry.expires_at

\* Instant::now() < entry.expires_at
Fresh(entry, instant) == instant < entry.expires_at

\* Lines 91-119: the cache read under the cache lock; on a hit the answer is
\* built from the cached records and sent (lines 106-114); on a miss the
\* blocklist match follows.
CacheRead(t) ==
    /\ pc[t] = "cache_read"
    /\ cacheLock = NoTask
    /\ LET k == Key(t) IN
       IF k \in DOMAIN cache /\ Fresh(cache[k], now)
       THEN /\ resp' = [resp EXCEPT ![t] =
                          BuildResponse(req[t], "NoError", cache[k].records)]
            /\ pc' = [pc EXCEPT ![t] = "done"]
            /\ role' = [role EXCEPT ![t] = "hit"]
            /\ UNCHANGED <<cache, exp>>
       ELSE /\ cache' = IF k \in DOMAIN cache THEN Remove(cache, k) ELSE cache
            /\ IF is_blocked(k.domain)
               THEN /\ exp' = [exp EXCEPT ![t] = now + BlockTtl]
                    /\ pc' = [pc EXCEPT ![t] = "block_insert"]
                    /\ role' = [role EXCEPT ![t] = "blocked"]
               ELSE /\ pc' = [pc EXCEPT ![t] = "claim"]
                    /\ UNCHANGED <<exp, role>>
            /\ UNCHANGED resp
    /\ UNCHANGED <<startup, req, key, pending, cacheLock, pendingLock, chan, recs, now, ldr,
                   cohort>>

\* Lines 120-121: take the cache lock and record the blocked entry.
BlockInsert(t) ==
    /\ pc[t] = "block_insert"
    /\ cacheLock = NoTask
    /\ cacheLock' = t
    /\ cache' = Put(cache, Key(t), [records |-> << >>, expires_at |-> exp[t]])
    /\ pc' = [pc EXCEPT ![t] = "block_send"]
    /\ UNCHANGED <<startup, req, key, pending, pendingLock, chan, recs, exp, resp, now, role,
                   ldr, cohort>>

\* Lines 123-128: answer NXDomain; the cache lock is dropped at the return.
BlockSend(t) ==
    /\ pc[t] = "block_send"
    /\ resp' = [resp EXCEPT ![t] = BuildResponse(req[t], "NXDomain", << >>)]
    /\ cacheLock' = NoTask
    /\ pc' = [pc EXCEPT ![t] = "done"]
    /\ exp' = [exp EXCEPT ![t] = 0]
    /\ UNCHANGED <<startup, req, key, cache, pending, pendingLock, chan, recs, now, role,
                   ldr, cohort>>

\* The leader in flight for a key, if any.
LeaderOf(k) ==
    IF \E u \in Tasks : IsLeader(u) /\ Key(u) = k
    THEN CHOOSE u \in Tasks : IsLeader(u) /\ Key(u) = k
    ELSE NoTask

\* A claim that never finds the key's entry.
HasPendingMut(k) == FALSE

\* pending.get_mut(&cache_key) is Some
HasPending(k) == k \in DOMAIN pending

\* A claim whose pending guard outlives its block: the leader keeps the
\* pending lock while it awaits the lookup.
ClaimMut(t) ==
    /\ pc[t] = "claim"
    /\ pendingLock = NoTask
    /\ LET k == Key(t) IN
       IF HasPending(k)
       THEN /\ pending' = [pending EXCEPT ![k] = Append(@, t)]
            /\ pc' = [pc EXCEPT ![t] = "wait"]
            /\ role' = [role EXCEPT ![t] = "follower"]
            /\ ldr' = [ldr EXCEPT ![t] = LeaderOf(k)]
            /\ UNCHANGED pendingLock
       ELSE /\ pending' = Put(pending, k, << >>)
            /\ pc' = [pc EXCEPT ![t] = "forward"]
            /\ role' = [role EXCEPT ![t] = "leader"]
            /\ pendingLock' = t
            /\ UNCHANGED ldr
    /\ UNCHANGED <<startup, req, key, cache, cacheLock, chan, recs, exp, resp, now,
                   cohort>>

\* Lines 134-144 and the call of resolver.lookup at 168: under the pending
\* lock, register as a waiter on the key's entry or insert an empty entry.
Claim(t) ==
    /\ pc[t] = "claim"
    /\ pendingLock = NoTask
    /\ LET k == Key(t) IN
       IF HasPending(k)
       THEN /\ pending' = [pending EXCEPT ![k] = Append(@, t)]
            /\ pc' = [pc EXCEPT ![t] = "wait"]
            /\ role' = [role EXCEPT ![t] = "follower"]
            /\ ldr' = [ldr EXCEPT ![t] = LeaderOf(k)]
       ELSE /\ pending' = Put(pending, k, << >>)
            /\ pc' = [pc EXCEPT ![t] = "forward"]
            /\ role' = [role EXCEPT ![t] = "leader"]
            /\ UNCHANGED ldr
    /\ UNCHANGED <<startup, req, key, cache, cacheLock, pendingLock, chan, recs, exp, resp, now,
                   cohort>>

\* Lines 147-163: the follower resumes on its channel and answers.
FollowerResume(t) ==
    /\ pc[t] = "wait"
    /\ chan[t].state # "empty"
    /\ IF chan[t].state = "sent"
       THEN resp' = [resp EXCEPT ![t] =
                       BuildResponse(req[t], "NoError", chan[t].records)]
       ELSE resp' = [resp EXCEPT ![t] = BuildResponse(req[t], "ServFail", << >>)]
    /\ pc' = [pc EXCEPT ![t] = "done"]
    /\ UNCHANGED <<startup, req, key, cache, pending, cacheLock, pendingLock, chan, recs, exp,
                   now, role, ldr, cohort>>

\* Lines 168-174, Ok: the lookup returns records; expires_at is computed.
LookupOk(t, records) ==
    /\ pc[t] = "forward"
    /\ recs' = [recs EXCEPT ![t] = records]
    /\ exp' = [exp EXCEPT ![t] = now + MinTtl(records)]
    /\ pc' = [pc EXCEPT ![t] = "cache_insert"]
    /\ UNCHANGED <<startup, req, key, cache, pending, cacheLock, pendingLock, chan, resp, now,
                   role, ldr, cohort>>

\* An insert whose cache guard is dropped before the waiters are woken.
CacheInsertMut(t) ==
    /\ pc[t] = "cache_insert"
    /\ cacheLock = NoTask
    /\ cache' = Put(cache, Key(t), [records |-> recs[t], expires_at |-> exp[t]])
    /\ pc' = [pc EXCEPT ![t] = "wake"]
    /\ UNCHANGED <<startup, req, key, pending, cacheLock, pendingLock, chan, recs, exp,
                   resp, now, role, ldr, cohort>>

\* Lines 176-177: take the cache lock and store the entry.
CacheInsert(t) ==
    /\ pc[t] = "cache_insert"
    /\ cacheLock = NoTask
    /\ cacheLock' = t
    /\ cache' = Put(cache, Key(t), [records |-> recs[t], expires_at |-> exp[t]])
    /\ pc' = [pc EXCEPT ![t] = "wake"]
    /\ UNCHANGED <<startup, req, key, pending, pendingLock, chan, recs, exp, resp, now, role,
                   ldr, cohort>>

\* A delivery that reaches no waiter.
DeliverMut(ch, waiters, records) == ch

\* The channels after `waiters` were each sent `records`.
Deliver(ch, waiters, records) ==
    [u \in Tasks |->
        IF \E i \in 1..Len(waiters) : waiters[i] = u THEN ChanOk(records) ELSE ch[u]]

\* A failure path that sends each waiter an empty record set.
DropSendersMut(ch, waiters) ==
    [u \in Tasks |->
        IF \E i \in 1..Len(waiters) : waiters[i] = u THEN ChanOk(<< >>) ELSE ch[u]]

\* The channels after the senders in `waiters` were dropped unsent.
DropSenders(ch, waiters) ==
    [u \in Tasks |->
        IF \E i \in 1..Len(waiters) : waiters[i] = u THEN ChanClosed ELSE ch[u]]

\* Lines 180-185: take the pending lock, remove the entry, wake the waiters.
Wake(t) ==
    /\ pc[t] = "wake"
    /\ pendingLock = NoTask
    /\ pendingLock' = t
    /\ LET k == Key(t) IN
       IF k \in DOMAIN pending
       THEN /\ chan' = Deliver(chan, pending[k], recs[t])
            /\ pending' = Remove(pending, k)
       ELSE UNCHANGED <<chan, pending>>
    /\ pc' = [pc EXCEPT ![t] = "ok_send"]
    /\ UNCHANGED <<startup, req, key, cache, cacheLock, recs, exp, resp, now, role, ldr, cohort>>

\* Lines 188-194: answer NoError; both locks are dropped at the return.
OkSend(t) ==
    /\ pc[t] = "ok_send"
    /\ resp' = [resp EXCEPT ![t] = BuildResponse(req[t], "NoError", recs[t])]
    /\ cacheLock' = NoTask
    /\ pendingLock' = NoTask
    /\ pc' = [pc EXCEPT ![t] = "done"]
    /\ recs' = [recs EXCEPT ![t] = << >>]
    /\ exp' = [exp EXCEPT ![t] = 0]
    /\ UNCHANGED <<startup, req, key, cache, pending, chan, now, role, ldr, cohort>>

\* A failure path that goes to the cleanup without answering.
LookupErrMut(t) ==
    /\ pc[t] = "forward"
    /\ pc' = [pc EXCEPT ![t] = "fail_remove"]
    /\ UNCHANGED <<startup, req, key, cache, pending, cacheLock, pendingLock, chan, recs, exp,
                   resp, now, role, ldr, cohort>>

\* Lines 196-201: the lookup fails; answer ServFail.
LookupErr(t) ==
    /\ pc[t] = "forward"
    /\ resp' = [resp EXCEPT ![t] = BuildResponse(req[t], "ServFail", << >>)]
    /\ pc' = [pc EXCEPT ![t] = "fail_remove"]
    /\ UNCHANGED <<startup, req, key, cache, pending, cacheLock, pendingLock, chan, recs, exp,
                   now, role, ldr, cohort>>

\* A cleanup that also caches the failure as an empty answer.
FailRemoveMut(t) ==
    /\ pc[t] = "fail_remove"
    /\ pendingLock = NoTask
    /\ cacheLock = NoTask
    /\ LET k == Key(t) IN
       /\ cache' = Put(cache, k, [records |-> << >>, expires_at |-> now + DefaultTtl])
       /\ IF k \in DOMAIN pending
          THEN /\ chan' = DropSenders(chan, pending[k])
               /\ pending' = Remove(pending, k)
          ELSE UNCHANGED <<chan, pending>>
    /\ pc' = [pc EXCEPT ![t] = "done"]
    /\ UNCHANGED <<startup, req, key, cacheLock, pendingLock, recs, exp, resp, now,
                   role, ldr, cohort>>

\* A cleanup that takes the pending lock and then, holding it, the cache
\* lock to drop the key's stale entry.
FailRemoveLockMut(t) ==
    /\ pc[t] = "fail_remove"
    /\ \/ /\ pendingLock = NoTask
          /\ pendingLock' = t
          /\ UNCHANGED <<pc, cache, pending, chan>>
       \/ /\ pendingLock = t
          /\ cacheLock = NoTask
          /\ pendingLock' = NoTask
          /\ cache' = Remove(cache, Key(t))
          /\ IF Key(t) \in DOMAIN pending
             THEN /\ chan' = DropSenders(chan, pending[Key(t)])
                  /\ pending' = Remove(pending, Key(t))
             ELSE UNCHANGED <<chan, pending>>
          /\ pc' = [pc EXCEPT ![t] = "done"]
    /\ UNCHANGED <<startup, req, key, cacheLock, recs, exp, resp, now, role, ldr,
                   cohort>>

\* Lines 202-205: take the pending lock, remove the entry (its senders are
\* dropped with it), return.
FailRemove(t) ==
    /\ pc[t] = "fail_remove"
    /\ pendingLock = NoTask
    /\ LET k == Key(t) IN
       IF k \in DOMAIN pending
       THEN /\ chan' = DropSenders(chan, pending[k])
            /\ pending' = Remove(pending, k)
       ELSE UNCHANGED <<chan, pending>>
    /\ pc' = [pc EXCEPT ![t] = "done"]
    /\ UNCHANGED <<startup, req, key, cache, cacheLock, pendingLock, recs, exp, resp, now, role,
                   ldr, cohort>>

Next ==
    \/ Tick
    \/ \E t \in Tasks, q \in Requests : Receive(t, q)
    \/ \E t \in Tasks : CacheRead(t)
    \/ \E t \in Tasks : BlockInsert(t)
    \/ \E t \in Tasks : BlockSend(t)
    \/ \E t \in Tasks : Claim(t)
    \/ \E t \in Tasks : FollowerResume(t)
    \/ \E t \in Tasks : \E rs \in Answers(req[t].name, req[t].qtype) : LookupOk(t, rs)
    \/ \E t \in Tasks : CacheInsert(t)
    \/ \E t \in Tasks : Wake(t)
    \/ \E t \in Tasks : OkSend(t)
    \/ \E t \in Tasks : LookupErr(t)
    \/ \E t \in Tasks : FailRemove(t)

Spec == Init /\ [][Next]_vars

\* Every step a dispatched task takes by itself or on the resolver's return.
TaskStep(t) ==
    \/ CacheRead(t)
    \/ BlockInsert(t)
    \/ BlockSend(t)
    \/ Claim(t)
    \/ FollowerResume(t)
    \/ \E rs \in Answers(req[t].name, req[t].qtype) : LookupOk(t, rs)
    \/ CacheInsert(t)
    \/ Wake(t)
    \/ OkSend(t)
    \/ LookupErr(t)
    \/ FailRemove(t)

\* The runtime schedules every runnable task, tokio's mutexes are granted to
\* their waiters, and every upstream lookup returns.
FairSpec == Init /\ [][Next]_vars /\ \A t \in Tasks : WF_vars(TaskStep(t))

\* ----------------------------------------------------- main and run_dns
\* main.rs line 71: init_db().await?; on success the servers are spawned.
InitDb(ok) ==
    /\ phase = "init_db"
    /\ IF ok
       THEN /\ phase' = "bind"
            /\ UNCHANGED mainResult
       ELSE /\ phase' = "exited"
            /\ mainResult' = "err"
    /\ UNCHANGED <<pc, req, key, cache, pending, cacheLock, pendingLock, chan, recs,
                   exp, resp, now, role, ldr, cohort, loaded, registered, dnsResult>>

\* Lines 216-222: UdpSocket::bind; on Err run_dns returns the error.
Bind(ok) ==
    /\ phase = "bind"
    /\ IF ok
       THEN /\ phase' = "load"
            /\ UNCHANGED dnsResult
       ELSE /\ phase' = "ended"
            /\ dnsResult' = "bind_err"
    /\ UNCHANGED <<pc, req, key, cache, pending, cacheLock, pendingLock, chan, recs,
                   exp, resp, now, role, ldr, cohort, loaded, registered, mainResult>>

\* A load whose error is swallowed: the handler is built on no snapshot.
LoadBlocklistMut(ok) ==
    /\ phase = "load"
    /\ phase' = "new"
    /\ loaded' = ok
    /\ UNCHANGED <<pc, req, key, cache, pending, cacheLock, pendingLock, chan, recs,
                   exp, resp, now, role, ldr, cohort, registered, dnsResult,
                   mainResult>>

\* Line 224: get_all_blocked_domains().await?
LoadBlocklist(ok) ==
    /\ phase = "load"
    /\ IF ok
       THEN /\ phase' = "new"
            /\ loaded' = TRUE
            /\ UNCHANGED dnsResult
       ELSE /\ phase' = "ended"
            /\ dnsResult' = "load_err"
            /\ UNCHANGED loaded
    /\ UNCHANGED <<pc, req, key, cache, pending, cacheLock, pendingLock, chan, recs,
                   exp, resp, now, role, ldr, cohort, registered, mainResult>>

\* Lines 226-230: DnsBlocker::new, ServerFuture::new, register_socket.
Register ==
    /\ phase = "new"
    /\ phase' = "serving"
    /\ registered' = TRUE
    /\ UNCHANGED <<pc, req, key, cache, pending, cacheLock, pendingLock, chan, recs,
                   exp, resp, now, role, ldr, cohort, loaded, dnsResult, mainResult>>

\* Lines 232-233: block_until_done returns, with Ok or with an error, at a
\* moment when no handler is in flight.
ServerStop(ok) ==
    /\ phase = "serving"
    /\ \A t \in Tasks : ~InFlight(t)
    /\ phase' = "ended"
    /\ dnsResult' = IF ok THEN "ok" ELSE "serve_err"
    /\ UNCHANGED <<pc, req, key, cache, pending, cacheLock, pendingLock, chan, recs,
                   exp, resp, now, role, ldr, cohort, loaded, registered, mainResult>>

\* main.rs lines 86-99: every arm of the match on run_dns's result returns Err.
MainResult(result) == "err"

\* main.rs lines 84-100: the select! branch of dns_handle; main returns.
MainSelect ==
    /\ phase = "ended"
    /\ phase' = "exited"
    /\ mainResult' = MainResult(dnsResult)
    /\ UNCHANGED <<pc, req, key, cache, pending, cacheLock, pendingLock, chan, recs,
                   exp, resp, now, role, ldr, cohort, loaded, registered, dnsResult>>

\* The process at the entry of main.
BootInit ==
    /\ NoTraffic
    /\ phase = "init_db"
    /\ loaded = FALSE
    /\ registered = FALSE
    /\ dnsResult = "none"
    /\ mainResult = "running"

BootNext ==
    \/ \E ok \in BOOLEAN : InitDb(ok)
    \/ \E ok \in BOOLEAN : Bind(ok)
    \/ \E ok \in BOOLEAN : LoadBlocklist(ok)
    \/ Register
    \/ \E ok \in BOOLEAN : ServerStop(ok)
    \/ MainSelect
    \/ Next

\* The whole process, from the entry of main.
BootSpec == BootInit /\ [][BootNext]_vars

\* ------------------------------------------------------------ properties
Done(t) == pc[t] = "done"
Blocked(t) == is_blocked(Key(t).domain)
Answered(t) == resp[t].rcode # "none"
SameKey(t, u) == t # u /\ req[t] # NoReq /\ req[u] # NoReq /\ Key(t) = Key(u)

\* C1: tasks for one allowed key that were dispatched together on an empty
\* cache cause at most one upstream lookup, and their answers agree: all
\* NoError with the same records, or all ServFail.
StampedeProperty ==
    \A t, u \in Tasks :
        (SameKey(t, u) /\ u \in cohort[t] /\ ~Blocked(t)) =>
            /\ ~(role[t] = "leader" /\ role[u] = "leader")
            /\ (Done(t) /\ Done(u)) =>
                  /\ resp[t].rcode = resp[u].rcode
                  /\ resp[t].answers = resp[u].answers
                  /\ resp[t].rcode \in {"NoError", "ServFail"}

\* C2: every answer to a query for a blocked domain is NXDomain with no
\* answer records.
BlockedAlwaysNXDomain ==
    \A t \in Tasks :
        (Answered(t) /\ Blocked(t)) =>
            /\ resp[t].rcode = "NXDomain"
            /\ resp[t].answers = << >>

\* C3: a key has at most one leader in flight, and a pending entry exactly
\* while it has one.
LeaderExclusion ==
    \A k \in Keys :
        /\ Cardinality({t \in Tasks : IsLeader(t) /\ Key(t) = k}) <= 1
        /\ (k \in DOMAIN pending) <=> (\E t \in Tasks : IsLeader(t) /\ Key(t) = k)

\* C3 witness: a leader awaits the resolver while a follower waits on its entry.
LeaderWithFollower ==
    \E t, u \in Tasks :
        /\ SameKey(t, u)
        /\ pc[t] = "forward"
        /\ pc[u] = "wait"
        /\ pending[Key(t)] = <<u>>

\* C4: when a leader returns, on either path, its key has no pending entry;
\* and a task that reaches the claim while no leader is in flight for its key
\* becomes leader and calls the resolver.
LeaderClearsPending ==
    [][\A t \in Tasks :
         /\ (role[t] = "leader" /\ ~Done(t) /\ pc'[t] = "done")
                => Key(t) \notin DOMAIN pending'
         /\ (/\ pc[t] = "claim"
             /\ pc'[t] # "claim"
             /\ ~\E u \in Tasks : IsLeader(u) /\ Key(u) = Key(t))
                => /\ pc'[t] = "forward"
                   /\ role'[t] = "leader"
                   /\ (UpstreamCalls(Key(t)))' = UpstreamCalls(Key(t)) + 1]_vars

\* C4 witness: after a leader answered ServFail and returned, the next task
\* for the key is leader and awaits a fresh lookup.
RetryAfterFailure ==
    \E t, u \in Tasks :
        /\ SameKey(t, u)
        /\ role[t] = "leader" /\ Done(t) /\ resp[t].rcode = "ServFail"
        /\ pc[u] = "forward"

\* C5: every task waiting on a leader's channel is eventually resumed and
\* answers.
FollowersResume ==
    \A t \in Tasks : (pc[t] = "wait") ~> (Done(t) /\ Answered(t))

\* C5 witness: a follower has been resumed and has answered.
FollowerAnswered ==
    \E t \in Tasks : role[t] = "follower" /\ Done(t) /\ Answered(t)

\* What a leader answers, known from the moment it has woken its waiters.
LeaderOutcome(l) ==
    IF pc[l] = "ok_send"
    THEN [rcode |-> "NoError", answers |-> recs[l]]
    ELSE [rcode |-> resp[l].rcode, answers |-> resp[l].answers]

\* C6: a follower answers what the leader it registered with answers: the
\* same records with NoError, or ServFail with no records.
FollowerSeesLeaderOutcome ==
    \A t \in Tasks :
        (role[t] = "follower" /\ Done(t)) =>
            /\ ldr[t] \in Tasks
            /\ SameKey(t, ldr[t])
            /\ role[ldr[t]] = "leader"
            /\ pc[ldr[t]] \in {"ok_send", "done"}
            /\ resp[t].rcode = LeaderOutcome(ldr[t]).rcode
            /\ resp[t].answers = LeaderOutcome(ldr[t]).answers
            /\ resp[t].rcode \in {"NoError", "ServFail"}
            /\ resp[t].rcode = "ServFail" => resp[t].answers = << >>

\* C6 witness: a follower and its leader have both answered ServFail.
FollowerSharesFailure ==
    \E t \in Tasks :
        /\ role[t] = "follower" /\ Done(t)
        /\ resp[t].rcode = "ServFail"
        /\ Done(ldr[t]) /\ resp[ldr[t]].rcode = "ServFail"

\* C7: a cache read answers from an entry only before its expiry instant, and
\* a read that finds an expired entry removes it and goes on as a miss.
NoStaleServe ==
    [][\A t \in Tasks :
         (pc[t] = "cache_read" /\ pc'[t] # "cache_read") =>
            /\ role'[t] = "hit" =>
                  /\ Key(t) \in DOMAIN cache
                  /\ now < cache[Key(t)].expires_at
                  /\ resp'[t].answers = cache[Key(t)].records
            /\ (Key(t) \in DOMAIN cache /\ now >= cache[Key(t)].expires_at) =>
                  /\ Key(t) \notin DOMAIN cache'
                  /\ role'[t] # "hit"
                  /\ resp'[t] = NoResp
                  /\ pc'[t] \in {"claim", "block_insert"}]_vars

\* C7 witness: a key a leader cached records for has lost its entry to a read
\* at or after the expiry, and the reader goes on to the claim.
ExpiredEntryEvicted ==
    \E t, u \in Tasks :
        /\ SameKey(t, u)
        /\ role[u] = "leader" /\ Done(u) /\ resp[u].rcode = "NoError"
        /\ pc[t] = "claim"
        /\ Key(t) \notin DOMAIN cache

\* A cache entry holding resolved records.
Positive(entry) == entry.records # << >>

\* C8: a positive entry stays in the cache unchanged until its expiry, a
\* read before the expiry answers with its records without touching the
\* pending map or the resolver, and a read at or after the expiry goes to the
\* coordinator instead.
CacheCorrectness ==
    [][/\ \A k \in DOMAIN cache :
            (Positive(cache[k]) /\ now < cache[k].expires_at) =>
                /\ k \in DOMAIN cache'
                /\ cache'[k] = cache[k]
       /\ \A t \in Tasks :
            (/\ pc[t] = "cache_read" /\ pc'[t] # "cache_read"
             /\ Key(t) \in DOMAIN cache /\ Positive(cache[Key(t)])) =>
                IF now < cache[Key(t)].expires_at
                THEN /\ resp'[t] = BuildResponse(req[t], "NoError", cache[Key(t)].records)
                     /\ pending' = pending
                     /\ (UpstreamCalls(Key(t)))' = UpstreamCalls(Key(t))
                ELSE /\ pc'[t] = "claim"
                     /\ resp'[t] = NoResp]_vars

\* C9: every answer for an allowed domain carries the transaction ID of the
\* request it answers.
ResponseEchoesId ==
    \A t \in Tasks :
        (Answered(t) /\ ~Blocked(t)) => resp[t].id = req[t].id

\* C9 witness: a task is answered from records cached by a leader whose
\* request had another transaction ID.
HitFromOtherId ==
    \E t, u \in Tasks :
        /\ SameKey(t, u)
        /\ role[u] = "leader" /\ Done(u)
        /\ role[t] = "hit" /\ Done(t)
        /\ resp[t].answers # << >>
        /\ resp[t].answers = resp[u].answers
        /\ req[t].id # req[u].id

\* C10: the blocklist is matched before the cache is read, so no query for a
\* blocked domain is answered from the cache.
BlockCheckFirst ==
    \A t \in Tasks : Blocked(t) => role[t] # "hit"

\* The five paths of handle_request that end in a response.
Paths == {"hit", "blocked", "follower", "leader"}
RCodes == {"NoError", "NXDomain", "ServFail"}

\* C11: every dispatched query is answered exactly once: a handler returns
\* only after it sent a response, the response code is NoError, NXDomain or
\* ServFail, a response once sent is never followed by another, and every
\* handler that returned took the cache-hit, blocked, follower or leader path
\* (the fall-through after the coordinator is never taken).
AnsweredExactlyOnce ==
    [][\A t \in Tasks :
         /\ resp[t] # NoResp => resp'[t] = resp[t]
         /\ resp'[t] # resp[t] => resp'[t].rcode \in RCodes
         /\ (pc[t] # "done" /\ pc'[t] = "done") =>
               /\ resp'[t].rcode \in RCodes
               /\ role'[t] \in Paths
         /\ (pc[t] = "claim" /\ pc'[t] # "claim") => pc'[t] \in {"wait", "forward"}]_vars

\* C11 witness: a leader whose lookup failed and a handler on the blocked
\* path have both answered and returned.
FailedLeaderAndBlockedAnswered ==
    \E t, u \in Tasks :
        /\ role[t] = "leader" /\ Done(t) /\ resp[t].rcode = "ServFail"
        /\ role[u] = "blocked" /\ Done(u) /\ resp[u].rcode = "NXDomain"

\* C12: startup failures are fatal and come before any serving: after a
\* failed bind or a failed blocklist load run_dns has returned an error, no
\* socket is registered and no query was dispatched; no query is dispatched
\* or answered without the snapshot loaded; and once run_dns has ended main
\* returns nothing but an error.
StartupPrecedesServing ==
    /\ dnsResult \in {"bind_err", "load_err"} =>
          /\ ~registered
          /\ phase \in {"ended", "exited"}
          /\ \A t \in Tasks : pc[t] = "idle" /\ resp[t] = NoResp
    /\ registered => loaded
    /\ (\E t \in Tasks : pc[t] # "idle" \/ resp[t] # NoResp) => (loaded /\ registered)
    /\ dnsResult # "none" => phase \in {"ended", "exited"}
    /\ mainResult \in {"running", "err"}
    /\ phase = "exited" <=> mainResult = "err"

\* C12 witness: the blocklist load failed after a successful bind, run_dns
\* returned the error and main returned an error, with no socket registered.
ExitedOnLoadFailure ==
    /\ dnsResult = "load_err"
    /\ phase = "exited"
    /\ mainResult = "err"
    /\ ~registered

\* C13: the failure path of a leader writes nothing to the answer cache: its
\* ServFail step changes neither map, and its cleanup step leaves the cache
\* as it was and changes the pending map by the removal of its key's entry
\* only.
FailureLeavesCache ==
    [][\A t \in Tasks :
         /\ (pc[t] = "forward" /\ pc'[t] = "fail_remove") =>
               /\ cache' = cache
               /\ pending' = pending
               /\ chan' = chan
               /\ cacheLock' = cacheLock /\ pendingLock' = pendingLock
         /\ (pc[t] = "fail_remove" /\ pc'[t] = "done") =>
               /\ cache' = cache
               /\ cacheLock' = cacheLock /\ pendingLock' = pendingLock
               /\ Key(t) \in DOMAIN pending
               /\ DOMAIN pending' = (DOMAIN pending) \ {Key(t)}
               /\ \A k \in DOMAIN pending' : pending'[k] = pending[k]]_vars

\* C13 witness: a leader whose lookup failed has returned, and its key has
\* neither a cache entry nor a pending entry.
FailureLeftNothing ==
    \E t \in Tasks :
        /\ role[t] = "leader" /\ Done(t) /\ resp[t].rcode = "ServFail"
        /\ Key(t) \notin DOMAIN cache
        /\ Key(t) \notin DOMAIN pending
        /\ cache # << >>

\* C14: a leader whose lookup succeeded computes the expiry as the current
\* instant plus the smallest TTL of the records, or plus 60 s when there are
\* none, and stores the records with that expiry; the blocked path stores an
\* entry with no records and the expiry 60 s after the instant of the match;
\* and no cache read answers from records whose smallest TTL is 0.
ExpiryFromMinTtl ==
    [][\A t \in Tasks :
         /\ (pc[t] = "forward" /\ pc'[t] = "cache_insert") =>
               IF recs'[t] = << >>
               THEN exp'[t] = now + DefaultTtl
               ELSE /\ \E i \in 1..Len(recs'[t]) : exp'[t] = now + recs'[t][i].ttl
                    /\ \A i \in 1..Len(recs'[t]) : exp'[t] <= now + recs'[t][i].ttl
         /\ (pc[t] = "cache_insert" /\ pc'[t] = "wake") =>
               cache'[Key(t)] = [records |-> recs[t], expires_at |-> exp[t]]
         /\ (pc[t] = "cache_read" /\ pc'[t] = "block_insert") =>
               exp'[t] = now + BlockTtl
         /\ (pc[t] = "block_insert" /\ pc'[t] = "block_send") =>
               cache'[Key(t)] = [records |-> << >>, expires_at |-> exp[t]]
         /\ (pc[t] = "cache_read" /\ role'[t] = "hit") =>
               \A i \in 1..Len(cache[Key(t)].records) :
                   cache[Key(t)].records[i].ttl > 0]_vars

\* C14 witness: a leader cached and answered a record of TTL 0, and a read
\* of the same key at the same instant evicted the entry and missed.
ZeroTtlNeverServed ==
    \E t, u \in Tasks :
        /\ SameKey(t, u)
        /\ role[t] = "leader" /\ Done(t)
        /\ Len(resp[t].answers) = 1 /\ resp[t].answers[1].ttl = 0
        /\ pc[u] = "claim"
        /\ Key(u) \notin DOMAIN cache
        /\ now = 0

\* C15: on the success path the cache is written before the pending entry
\* is removed and the waiters are woken: while a leader is about to remove
\* its entry, and when it has just removed it, the cache holds the records
\* and the expiry of that leader's lookup under its key.
CacheBeforeWake ==
    \A t \in Tasks :
        pc[t] \in {"wake", "ok_send"} =>
            /\ Key(t) \in DOMAIN cache
            /\ cache[Key(t)] = [records |-> recs[t], expires_at |-> exp[t]]
            /\ pc[t] = "ok_send" => Key(t) \notin DOMAIN pending

\* C15 witness: a leader has removed its entry and sent its records to a
\* waiter that has not resumed yet, and the cache holds those records.
WokenAfterCached ==
    \E t, u \in Tasks :
        /\ SameKey(t, u)
        /\ pc[t] = "ok_send"
        /\ pc[u] = "wait"
        /\ chan[u] = ChanOk(recs[t])
        /\ recs[t] # << >>
        /\ cache[Key(t)].records = recs[t]

\* Awaiting the upstream resolver or a leader's delivery.
Suspended(t) == pc[t] \in {"forward", "wait"}

\* C16: queries for different keys do not serialize each other: a task
\* suspended on the upstream lookup or on a leader's delivery holds neither
\* lock, a lock is held only by a task on its way to its return, and while
\* a task is suspended and both locks are free, every task of another key
\* that is not itself waiting for a delivery can take its next step.
KeysDoNotSerialize ==
    [](/\ \A t \in Tasks : Suspended(t) => (cacheLock # t /\ pendingLock # t)
       /\ cacheLock # NoTask => pc[cacheLock] \in {"block_send", "wake", "ok_send"}
       /\ pendingLock # NoTask => pc[pendingLock] = "ok_send"
       /\ \A t, u \in Tasks :
             (/\ Suspended(t)
              /\ InFlight(u)
              /\ Key(u) # Key(t)
              /\ ~(pc[u] = "wait" /\ chan[u] = ChanEmpty)
              /\ cacheLock = NoTask
              /\ pendingLock = NoTask) => ENABLED TaskStep(u))

\* C16 witness: the leader of one key awaits its lookup while the leader of
\* another key has cached its records, removed its entry and is answering.
OtherKeyCompletes ==
    \E t, u \in Tasks :
        /\ t # u
        /\ Key(t) # Key(u)
        /\ pc[t] = "forward"
        /\ pc[u] = "ok_send"
        /\ Key(t) \in DOMAIN pending
        /\ Key(u) \in DOMAIN cache

\* C17: every record served to a query was resolved for that query's own
\* name and requested record type; a type A query is never answered with
\* records resolved for an HTTPS query of the name, nor the reverse.
ServedOwnResolution ==
    \A t \in Tasks :
        Answered(t) =>
            \A i \in 1..Len(resp[t].answers) :
                /\ resp[t].answers[i].name = req[t].name
                /\ resp[t].answers[i].rtype = req[t].qtype

\* The places where a task acquires the cache lock, and the pending lock.
WaitsCache(t) == pc[t] \in {"cache_read", "block_insert", "cache_insert"}
WaitsPending(t) == pc[t] \in {"claim", "wake", "fail_remove"}

\* C18: the two mutexes never deadlock the handlers: no two tasks hold one
\* lock each while waiting for the other's, no task waits for a lock it
\* holds, the pending lock is held only by the task that already holds the
\* cache lock (the order is cache, then pending), and the holder of a lock
\* can always take its next step, so every lock held is released.
NoLockCycle ==
    [](/\ ~\E t, u \in Tasks :
             /\ cacheLock = t /\ WaitsPending(t)
             /\ pendingLock = u /\ WaitsCache(u)
       /\ \A t \in Tasks :
             /\ cacheLock = t => ~WaitsCache(t)
             /\ pendingLock = t => ~WaitsPending(t)
       /\ pendingLock # NoTask => cacheLock = pendingLock
       /\ cacheLock # NoTask => ENABLED TaskStep(cacheLock)
       /\ pendingLock # NoTask => ENABLED TaskStep(pendingLock))

\* C18 witness: a leader holds the cache lock and is about to take the
\* pending lock while a task of another key is about to take the pending
\* lock for its claim.
CacheHeldPendingContended ==
    \E t, u \in Tasks :
        /\ t # u
        /\ cacheLock = t
        /\ pc[t] = "wake"
        /\ pc[u] = "claim"
        /\ pendingLock = NoTask

\* The name, trimmed of its trailing dots, ends with a blocked suffix.
OnBlocklist(t) ==
    \E i \in 1..Len(Blocklist) :
        \E n \in 0..Len(Key(t).domain) :
            SubSeq(Key(t).domain, n + 1, Len(Key(t).domain)) = Blocklist[i]

\* The positions of a task inside the stampede coordinator.
CoordinatorStates == {"claim", "wait", "forward", "cache_insert", "wake", "ok_send",
                      "fail_remove"}

\* C19: a query for a blocked domain never reaches the stampede coordinator:
\* a task that is at the claim or beyond it, that is leader or follower, that
\* is registered as a waiter, or whose key has a pending entry or an upstream
\* lookup made for it, is not a task for a blocked name; and no step of the
\* blocked path or of the cache-hit path changes the pending map.
BlockedSkipsCoordinator ==
    [][\A t \in Tasks :
         /\ (\/ pc'[t] \in CoordinatorStates
             \/ role'[t] \in {"leader", "follower"}
             \/ Key(t)' \in DOMAIN pending'
             \/ \E k \in DOMAIN pending' :
                   \E i \in 1..Len(pending'[k]) : pending'[k][i] = t
             \/ (req'[t] # NoReq /\ (UpstreamCalls(Key(t)))' # 0)) =>
               ~OnBlocklist(t)'
         /\ (pc'[t] # pc[t] /\ pc'[t] \in {"block_insert", "block_send"}) =>
               pending' = pending
         /\ (pc'[t] # pc[t] /\ pc'[t] = "done" /\ role'[t] \in {"hit", "blocked"}) =>
               pending' = pending]_vars

\* C19 witness: a query for a blocked name was answered on the blocked path
\* while the leader of another key holds a pending entry.
BlockedBesidePending ==
    \E t, u \in Tasks :
        /\ OnBlocklist(t) /\ role[t] = "blocked" /\ Done(t)
        /\ pc[u] = "forward"
        /\ DOMAIN pending = {Key(u)}

====
